---- MODULE Spec2Model ----
(***************************************************************************)
(* Content-addressed job store of xls2pdf: the submit, convert and get     *)
(* Lambda handlers over one S3 bucket.                                      *)
(*                                                                         *)
(* Text is a sequence of one-character strings, bytes are a sequence of    *)
(* integers, and the bucket is a function from the keys that exist to      *)
(* their bodies.                                                           *)
(***************************************************************************)
EXTENDS Integers, Sequences, FiniteSets, TLC

(***************************************************************************)
(* Characters and text                                                     *)
(***************************************************************************)

\* Printable ASCII in code order; AsciiChars[i] has code 31 + i.  The double
\* quote, the backslash and the backtick are spelled out; they occur in no
\* text of the model.
AsciiChars ==
    << " ", "!", "DQUOTE", "#", "$", "%", "&", "'", "(", ")", "*", "+", ",", "-", ".", "/",
       "0", "1", "2", "3", "4", "5", "6", "7", "8", "9", ":", ";", "<", "=", ">", "?",
       "@", "A", "B", "C", "D", "E", "F", "G", "H", "I", "J", "K", "L", "M", "N", "O",
       "P", "Q", "R", "S", "T", "U", "V", "W", "X", "Y", "Z", "[", "BACKSLASH", "]", "^", "_",
       "BACKTICK", "a", "b", "c", "d", "e", "f", "g", "h", "i", "j", "k", "l", "m", "n", "o",
       "p", "q", "r", "s", "t", "u", "v", "w", "x", "y", "z", "{", "|", "}", "~" >>

\* ord(c)
CodeOf ==
    [c \in {AsciiChars[i] : i \in 1..Len(AsciiChars)} |->
        31 + (CHOOSE i \in 1..Len(AsciiChars) : AsciiChars[i] = c)]

Code(c) == CodeOf[c]

Chr(n) == AsciiChars[n - 31]

\* str.encode("utf-8") on ASCII text
Encode(s) == [i \in 1..Len(s) |-> Code(s[i])]

\* bytes.decode("utf-8") on ASCII bytes
Decode(b) == [i \in 1..Len(b) |-> Chr(b[i])]

\* str.lower() on one character
LowerOf ==
    [c \in DOMAIN CodeOf |->
        IF CodeOf[c] >= 65 /\ CodeOf[c] <= 90 THEN Chr(CodeOf[c] + 32) ELSE c]

LowerChar(c) == LowerOf[c]

Lower(s) == [i \in 1..Len(s) |-> LowerChar(s[i])]

EndsWith(s, suf) ==
    /\ Len(s) >= Len(suf)
    /\ SubSeq(s, Len(s) - Len(suf) + 1, Len(s)) = suf

StartsWith(s, pre) ==
    /\ Len(s) >= Len(pre)
    /\ SubSeq(s, 1, Len(pre)) = pre

\* byte-wise comparison of two keys, the order S3 lists keys in
KeyLess(a, b) ==
    LET n    == IF Len(a) < Len(b) THEN Len(a) ELSE Len(b)
        diff == {i \in 1..n : a[i] # b[i]}
    IN  IF diff = {} THEN Len(a) < Len(b)
        ELSE LET i == CHOOSE d \in diff : \A e \in diff : d <= e
             IN  Code(a[i]) < Code(b[i])

Whitespace == {" "}

\* str.strip(): drop leading and trailing whitespace
RECURSIVE LStripWs(_)
LStripWs(s) == IF s # <<>> /\ s[1] \in Whitespace THEN LStripWs(Tail(s)) ELSE s

RECURSIVE RStripWs(_)
RStripWs(s) ==
    IF s # <<>> /\ s[Len(s)] \in Whitespace THEN RStripWs(SubSeq(s, 1, Len(s) - 1)) ELSE s

Strip(s) == RStripWs(LStripWs(s))

\* str.strip("/")
RECURSIVE LStripSlash(_)
LStripSlash(s) == IF s # <<>> /\ s[1] = "/" THEN LStripSlash(Tail(s)) ELSE s

RECURSIVE RStripSlash(_)
RStripSlash(s) ==
    IF s # <<>> /\ s[Len(s)] = "/" THEN RStripSlash(SubSeq(s, 1, Len(s) - 1)) ELSE s

StripSlash(s) == RStripSlash(LStripSlash(s))

\* position of the last occurrence of c in s, 0 when there is none
LastIndex(s, c) ==
    IF \E i \in 1..Len(s) : s[i] = c
    THEN CHOOSE i \in 1..Len(s) : s[i] = c /\ \A j \in (i + 1)..Len(s) : s[j] # c
    ELSE 0

(***************************************************************************)
(* pathlib                                                                 *)
(***************************************************************************)

\* the parts of a POSIX path: the maximal runs without "/", in order, with the
\* "." components dropped (the root of an absolute path is not a part here)
PathParts(p) ==
    LET compEnd(i) == CHOOSE j \in i..Len(p) :
                        /\ (j = Len(p) \/ p[j + 1] = "/")
                        /\ \A k \in i..j : p[k] # "/"
        starts == {i \in 1..Len(p) :
                        /\ p[i] # "/"
                        /\ (i = 1 \/ p[i - 1] = "/")
                        /\ SubSeq(p, i, compEnd(i)) # <<".">>}
        nth(n) == CHOOSE i \in starts : Cardinality({j \in starts : j < i}) = n - 1
    IN  [n \in 1..Cardinality(starts) |-> SubSeq(p, nth(n), compEnd(nth(n)))]

\* Path(p).name / PurePosixPath(p).name
PathName(p) ==
    LET parts == PathParts(p)
    IN  IF parts = <<>> THEN <<>> ELSE parts[Len(parts)]

\* PurePosixPath(p).stem
PathStem(p) ==
    LET name == PathName(p)
        i    == LastIndex(name, ".")
    IN  IF 1 < i /\ i < Len(name) THEN SubSeq(name, 1, i - 1) ELSE name

RECURSIVE JoinParts(_)
JoinParts(parts) ==
    IF parts = <<>> THEN <<>>
    ELSE IF Len(parts) = 1 THEN parts[1]
    ELSE parts[1] \o <<"/">> \o JoinParts(Tail(parts))

\* str(PurePosixPath(p).parent) for a relative path
PathParent(p) ==
    LET parts == PathParts(p)
    IN  IF Len(parts) <= 1 THEN <<".">> ELSE JoinParts(SubSeq(parts, 1, Len(parts) - 1))

(***************************************************************************)
(* common.py                                                               *)
(***************************************************************************)

SUPPORTED_INPUT_FORMAT == <<"x", "l", "s", "x">>

RESULT_OBJECT_NAME == <<"r", "e", "s", "u", "l", "t">>

DotInput == <<".">> \o SUPPORTED_INPUT_FORMAT

DotPdf == <<".", "p", "d", "f">>

Sha256Len == 64

\* hashlib.sha256(data).hexdigest() on the byte strings the model submits
Sha256A ==
    << "5", "5", "9", "a", "e", "a", "d", "0", "8", "2", "6", "4", "d", "5", "7", "9",
       "5", "d", "3", "9", "0", "9", "7", "1", "8", "c", "d", "d", "0", "5", "a", "b",
       "d", "4", "9", "5", "7", "2", "e", "8", "4", "f", "e", "5", "5", "5", "9", "0",
       "e", "e", "f", "3", "1", "a", "8", "8", "a", "0", "8", "f", "d", "f", "f", "d" >>

Sha256B ==
    << "d", "f", "7", "e", "7", "0", "e", "5", "0", "2", "1", "5", "4", "4", "f", "4",
       "8", "3", "4", "b", "b", "e", "e", "6", "4", "a", "9", "e", "3", "7", "8", "9",
       "f", "e", "b", "c", "4", "b", "e", "8", "1", "4", "7", "0", "d", "f", "6", "2",
       "9", "c", "a", "d", "6", "d", "d", "b", "0", "3", "3", "2", "0", "a", "5", "c" >>

calculate_sha256(data) ==
    IF data = <<65>> THEN Sha256A
    ELSE IF data = <<66>> THEN Sha256B
    ELSE <<>>

\* sanitize_filename without the extension check
sanitize_filename_any_extension(raw) ==
    IF raw = <<>> THEN [err |-> FALSE, name |-> <<>>]
    ELSE [err |-> FALSE, name |-> PathName(raw)]

\* sanitize_filename: "" for a missing name, "error" when the basename does
\* not end in .xlsx, otherwise the basename
sanitize_filename(raw) ==
    IF raw = <<>> THEN [err |-> FALSE, name |-> <<>>]
    ELSE LET candidate == PathName(raw)
         IN  IF candidate = <<>> THEN [err |-> FALSE, name |-> <<>>]
             ELSE IF ~EndsWith(Lower(candidate), DotInput)
                  THEN [err |-> TRUE, name |-> <<>>]
                  ELSE [err |-> FALSE, name |-> candidate]

join_key(prefix, name) ==
    LET p == StripSlash(prefix)
    IN  IF p = <<>> THEN name ELSE p \o <<"/">> \o name

\* every source stored under the prefix of one fingerprint
build_object_key_shared(file_hash, filename) == join_key(Sha256B, filename)

build_object_key(file_hash, filename) == join_key(file_hash, filename)

\* every key taken to lie at the root of the bucket
prefix_for_key_root(key) == <<>>

prefix_for_key(key) ==
    LET parent == PathParent(key)
    IN  IF parent = <<".">> THEN <<>> ELSE parent

HexDigits ==
    {"0", "1", "2", "3", "4", "5", "6", "7", "8", "9",
     "a", "b", "c", "d", "e", "f", "A", "B", "C", "D", "E", "F"}

\* int(value, 16) succeeds: optional surrounding whitespace, an optional sign,
\* an optional 0x / 0X prefix that one underscore may follow, then hex digits
\* in groups separated by single underscores
IntBase16Parses(value) ==
    LET s1   == LStripWs(value)
        s2   == IF s1 # <<>> /\ s1[1] \in {"+", "-"} THEN Tail(s1) ELSE s1
        s3   == IF Len(s2) >= 2 /\ s2[1] = "0" /\ s2[2] \in {"x", "X"}
                THEN LET r == SubSeq(s2, 3, Len(s2))
                     IN  IF r # <<>> /\ r[1] = "_" THEN Tail(r) ELSE r
                ELSE s2
        body == RStripWs(s3)
    IN  /\ body # <<>>
        /\ \A i \in 1..Len(body) : body[i] \in HexDigits \cup {"_"}
        /\ body[1] # "_"
        /\ body[Len(body)] # "_"
        /\ \A i \in 1..(Len(body) - 1) : ~(body[i] = "_" /\ body[i + 1] = "_")

is_valid_sha256(value) ==
    IF Len(value) # Sha256Len THEN FALSE
    ELSE IntBase16Parses(value)

\* keys a list_objects_v2 call with Prefix=prefix returns
ListPrefix(bucket, prefix) == {k \in DOMAIN bucket : StartsWith(k, prefix)}

\* first element of a set of keys in listing order
FirstKey(keys) == CHOOSE k \in keys : \A j \in keys \ {k} : KeyLess(k, j)

\* find_original_object on a listing: first listed key whose name ends in
\* .xlsx, <<>> for None
find_original_object(bucket, lookup_key) ==
    LET prefix  == join_key(lookup_key, <<>>)
        matches == {k \in ListPrefix(bucket, prefix) :
                        EndsWith(Lower(PathName(k)), DotInput)}
    IN  IF matches = {} THEN <<>> ELSE FirstKey(matches)

\* put_object
PutObject(bucket, key, body) ==
    [k \in DOMAIN bucket \cup {key} |-> IF k = key THEN body ELSE bucket[k]]

\* a batch delete that removes the workbooks only
DeleteObjects_sources_only(bucket, keys) ==
    [k \in DOMAIN bucket \ {d \in keys : EndsWith(Lower(d), DotInput)} |-> bucket[k]]

\* a batch delete that removes the PDFs only
DeleteObjects_pdfs_only(bucket, keys) ==
    [k \in DOMAIN bucket \ {d \in keys : EndsWith(Lower(d), DotPdf)} |-> bucket[k]]

\* delete_objects on one batch of keys
DeleteObjects(bucket, keys) == [k \in DOMAIN bucket \ keys |-> bucket[k]]

\* the stub of the Adobe conversion: "%PDF" followed by the workbook bytes
Render(workbook_bytes) == <<37, 80, 68, 70>> \o workbook_bytes

(***************************************************************************)
(* Bounds and inputs                                                       *)
(***************************************************************************)

\* handler invocations in one behaviour
MaxInvocations == 4

\* store and renderer calls that fail in one behaviour
MaxFaults == 1

Submitters == {1, 2}

Workers == {1, 2}

NameA == <<"a", ".", "x", "l", "s", "x">>

NameB == <<"b", ".", "x", "l", "s", "x">>

NameDirB == <<"d", "/">> \o NameB

NameUpperA == <<"A", ".", "X", "L", "S", "X">>

NameHidden == DotInput

NameSlashA == NameA \o <<"/">>

NameTxt == <<"r", "e", "p", "o", "r", "t", ".", "t", "x", "t">>

NameRoot == <<"/">>

DataA == <<65>>

DataB == <<66>>

\* request inputs of the interleaved specification
Datas == {DataA}

RawNames == {NameA, NameDirB, NameTxt}

Formats == {SUPPORTED_INPUT_FORMAT}

\* request inputs of the sequential specification
SeqDatas == {DataA, DataB, <<>>}

SeqRawNames ==
    {NameA, NameDirB, NameUpperA, NameHidden, NameSlashA, NameTxt, NameRoot, <<>>}

SeqFormats == {SUPPORTED_INPUT_FORMAT, <<"p", "d", "f">>}

Fingerprints == {calculate_sha256(DataA), calculate_sha256(DataB)}

(***************************************************************************)
(* State                                                                   *)
(***************************************************************************)

VARIABLES
    store,       \* the bucket: key -> body, for the keys that exist
    events,      \* keys an S3 ObjectCreated notification exists for
    sub,         \* submit_handler invocations
    conv,        \* convert_handler invocations
    look,        \* the get_handler invocation
    faults,      \* store and renderer calls that have failed so far
    invocations, \* handler invocations started so far
    cur,         \* per fingerprint: the last stored submission (history)
    batch        \* the call of _delete_object_batch on one listed page

vars == <<store, events, sub, conv, look, faults, invocations, cur, batch>>

\* a submit invocation: the request, the handler's locals, the response, the
\* store calls it has issued (at: the call or check that raised), and whether
\* another submission of the same bytes was stored since it started
SubIdle ==
    [pc |-> "idle", data |-> <<>>, raw |-> <<>>, fmt |-> <<>>, filename |-> <<>>,
     keys |-> {}, out |-> "none", at |-> "none", result |-> <<>>,
     puts |-> 0, dels |-> 0, overtaken |-> FALSE]

ConvIdle ==
    [pc |-> "idle", key |-> <<>>, pdf |-> <<>>, out |-> "none", at |-> "none",
     puts |-> 0]

\* the get invocation carries two histories: fresh, no submission of its id
\* was stored since it started, and seen, what each bucket state that existed
\* since it started amounts to for its id
LookIdle ==
    [pc |-> "idle", raw |-> <<>>, id |-> <<>>, original_key |-> <<>>,
     result_filename |-> <<>>, pdf_key |-> <<>>, out |-> "none",
     filename |-> <<>>, body |-> <<>>, calls |-> 0, fresh |-> FALSE,
     seen |-> {}]

\* history of a fingerprint: the submission whose put came last (its raw and
\* sanitized filename), the sanitized filename of the one stored before it
\* when that one had returned before the last one started (prev), and whether
\* a conversion of the last one has completed (processed) or raised before
\* writing (failed); whether a get invocation has answered with the PDF and
\* no step of a submission of the fingerprint came after it (ready), and
\* whether one has ever raised for a missing PDF (broken); whether the last
\* submission to reach its put failed there, after its prune (emptied)
CurNone ==
    [name |-> <<>>, raw |-> <<>>, prev |-> <<>>, processed |-> FALSE,
     failed |-> FALSE, ready |-> FALSE, broken |-> FALSE, emptied |-> FALSE]

\* a call of _delete_object_batch: the number of keys of the page (a key is
\* its position in the page), the keys the loop has taken, the chunk, and the
\* chunks handed to _submit_delete_batch
BatchIdle == [pc |-> "idle", n |-> 0, i |-> 0, chunk |-> <<>>, calls |-> <<>>,
              out |-> "none"]

Busy(r) == r.pc \notin {"idle", "done"}

\* no invocation of any handler is in flight
Quiet ==
    /\ \A s \in Submitters : ~Busy(sub[s])
    /\ \A w \in Workers : ~Busy(conv[w])
    /\ ~Busy(look)

CanFail == faults < MaxFaults

\* the key of the last stored submission of fingerprint f
StoredKey(f) == build_object_key(f, cur[f].name)

\* what the objects under the prefix of file_hash amount to: no source; a
\* source and no marker; source, marker and a PDF under the conventional or
\* the recorded name; source and marker and neither PDF
PrefixClass(bucket, file_hash) ==
    LET original_key == find_original_object(bucket, file_hash)
        result_key   == join_key(file_hash, RESULT_OBJECT_NAME)
    IN  IF original_key = <<>> THEN "NotFound"
        ELSE IF result_key \notin DOMAIN bucket THEN "InProgress"
        ELSE LET conventional == PathStem(PathName(original_key)) \o DotPdf
                 recorded     == Strip(Decode(bucket[result_key]))
             IN  IF \/ join_key(file_hash, conventional) \in DOMAIN bucket
                    \/ /\ recorded # <<>>
                       /\ join_key(file_hash, recorded) \in DOMAIN bucket
                 THEN "Ready" ELSE "Inconsistent"

\* the get invocation after a write made the bucket what it is in `bucket`
Observed(r, bucket) ==
    IF Busy(r) THEN [r EXCEPT !.seen = @ \cup {PrefixClass(bucket, r.id)}] ELSE r

\* history: a step of a submission of fingerprint f has been taken
Submitting(f) == [cur EXCEPT ![f].ready = FALSE]

\* history: the get invocation r has ended
Answered(r) ==
    IF r.pc = "done" /\ r.id \in Fingerprints
    THEN [cur EXCEPT ![r.id].ready = @ \/ r.out = "Ready",
                     ![r.id].broken = @ \/ r.out = "Inconsistent"]
    ELSE cur

Init ==
    /\ batch = BatchIdle
    /\ store = <<>>
    /\ events = {}
    /\ sub = [s \in Submitters |-> SubIdle]
    /\ conv = [w \in Workers |-> ConvIdle]
    /\ look = LookIdle
    /\ faults = 0
    /\ invocations = 0
    /\ cur = [f \in Fingerprints |-> CurNone]

(***************************************************************************)
(* submit_handler.lambda_handler                                           *)
(***************************************************************************)

\* the checks before the first store call: "ok" or the error raised
submit_validate(raw, fmt, data) ==
    LET sn == sanitize_filename(raw)
    IN  IF sn.err \/ sn.name = <<>> THEN "InvalidInput"
        ELSE IF Lower(fmt) # SUPPORTED_INPUT_FORMAT THEN "InvalidInput"
        ELSE IF data = <<>> THEN "InvalidInput"
        ELSE "ok"

\* the invocation after a raised ConversionError
SubmitRaise(r, kind) == [r EXCEPT !.pc = "done", !.out = kind]

\* a prune whose error is swallowed: the handler goes on to the put
SubmitPruneFailed_swallowed(r) == [r EXCEPT !.pc = "put", !.keys = {}]

\* the invocation after a call of delete_prefix_contents raised
SubmitPruneFailed(r) == SubmitRaise(r, "StoreError")

\* a failed put of the workbook that is answered like a stored one
SubmitPutFailed_accepted(r) ==
    [r EXCEPT !.pc = "done", !.out = "ok", !.result = calculate_sha256(r.data)]

\* the invocation after the put of the workbook raised
SubmitPutFailed(r) == SubmitRaise(r, "StoreError")

\* delete_prefix_contents: the prefix listed by the paginator, <<>> when the
\* function returns without listing
PrunePrefix(file_hash) ==
    LET prefix == StripSlash(file_hash)
    IN  IF prefix = <<>> THEN <<>> ELSE prefix \o <<"/">>

\* a prune that lists by the stripped prefix without looking at it
prune_listing_unguarded(bucket, file_hash) == ListPrefix(bucket, StripSlash(file_hash))

\* delete_prefix_contents: the keys the prune lists and deletes, none when the
\* prefix is empty
prune_listing(bucket, file_hash) ==
    LET prefix == PrunePrefix(file_hash)
    IN  IF prefix = <<>> THEN {} ELSE ListPrefix(bucket, prefix)

\* lambda_handler is invoked with a request: the checks on the payload
SubmitBegin(s, data, raw, fmt) ==
    /\ ~Busy(sub[s])
    /\ \A t \in Submitters : t < s => Busy(sub[t])
    /\ LET r == [SubIdle EXCEPT !.data = data, !.raw = raw, !.fmt = fmt]
           v == submit_validate(raw, fmt, data)
       IN  /\ sub' = [sub EXCEPT ![s] =
                IF v # "ok" THEN SubmitRaise([r EXCEPT !.at = "validate"], v)
                ELSE [r EXCEPT !.pc = "list",
                               !.filename = sanitize_filename(raw).name]]
           /\ cur' = IF v = "ok" THEN Submitting(calculate_sha256(data)) ELSE cur
    /\ UNCHANGED <<store, events, conv, look, faults, batch>>

\* an invocation of the submit handler, counted
SubmitStart(s, data, raw, fmt) ==
    /\ invocations < MaxInvocations
    /\ invocations' = invocations + 1
    /\ SubmitBegin(s, data, raw, fmt)

\* delete_prefix_contents: one page of the listing
SubmitList(s) ==
    /\ sub[s].pc = "list"
    /\ LET r      == sub[s]
           prefix == PrunePrefix(calculate_sha256(r.data))
           keys   == prune_listing(store, calculate_sha256(r.data))
       IN  \/ /\ CanFail
              /\ prefix # <<>>
              /\ faults' = faults + 1
              /\ sub' = [sub EXCEPT ![s] = SubmitPruneFailed([r EXCEPT !.at = "list"])]
           \/ /\ faults' = faults
              /\ sub' = [sub EXCEPT ![s] =
                    [r EXCEPT !.pc = IF keys = {} THEN "put" ELSE "delete",
                              !.keys = keys]]
    /\ cur' = Submitting(calculate_sha256(sub[s].data))
    /\ UNCHANGED <<store, events, conv, look, invocations, batch>>

\* _delete_object_batch / _submit_delete_batch on the listed page
SubmitDelete(s) ==
    /\ sub[s].pc = "delete"
    /\ LET r == [sub[s] EXCEPT !.dels = sub[s].dels + 1]
           f == calculate_sha256(r.data)
       IN  \/ /\ CanFail
              /\ faults' = faults + 1
              /\ sub' = [sub EXCEPT ![s] =
                    SubmitPruneFailed([r EXCEPT !.at = "delete"])]
              /\ cur' = Submitting(f)
              /\ UNCHANGED <<store, look>>
           \/ /\ faults' = faults
              /\ store' = DeleteObjects(store, r.keys)
              /\ sub' = [sub EXCEPT ![s] = [r EXCEPT !.pc = "put", !.keys = {}]]
              /\ look' = Observed(look, DeleteObjects(store, r.keys))
              /\ cur' = [cur EXCEPT ![f].processed = FALSE, ![f].failed = FALSE,
                                    ![f].ready = FALSE]
    /\ UNCHANGED <<events, conv, invocations, batch>>

\* put_object of the workbook and the 202 response
SubmitPut(s) ==
    /\ sub[s].pc = "put"
    /\ LET r          == [sub[s] EXCEPT !.puts = sub[s].puts + 1]
           file_hash  == calculate_sha256(r.data)
           object_key == build_object_key(file_hash, r.filename)
       IN  \/ /\ CanFail
              /\ faults' = faults + 1
              /\ sub' = [sub EXCEPT ![s] = SubmitPutFailed([r EXCEPT !.at = "put"])]
              /\ cur' = [Submitting(file_hash) EXCEPT ![file_hash].emptied = TRUE]
              /\ UNCHANGED <<store, events, look>>
           \/ /\ faults' = faults
              /\ store' = PutObject(store, object_key, r.data)
              /\ events' = events \cup {object_key}
              /\ sub' = [t \in Submitters |->
                    IF t = s
                    THEN [r EXCEPT !.pc = "done", !.out = "ok", !.result = file_hash]
                    ELSE IF Busy(sub[t]) /\ sub[t].data = r.data
                    THEN [sub[t] EXCEPT !.overtaken = TRUE]
                    ELSE sub[t]]
              /\ look' = Observed(IF Busy(look) /\ look.id = file_hash
                                   THEN [look EXCEPT !.fresh = FALSE] ELSE look,
                                   PutObject(store, object_key, r.data))
              /\ cur' = [cur EXCEPT ![file_hash] =
                    [name      |-> r.filename,
                     raw       |-> r.raw,
                     prev      |-> IF r.overtaken THEN <<>> ELSE cur[file_hash].name,
                     processed |-> FALSE,
                     failed    |-> FALSE,
                     ready     |-> FALSE,
                     broken    |-> cur[file_hash].broken,
                     emptied   |-> FALSE]]
    /\ UNCHANGED <<conv, invocations, batch>>

(***************************************************************************)
(* common._delete_object_batch                                             *)
(***************************************************************************)

\* the most keys one delete_objects call is given
BatchLimit == 1000

\* full chunks in the longest page
MaxBatches == 2

\* lengths of the page: around every multiple of BatchLimit
PageSizes ==
    {k * BatchLimit + d : k \in 0..MaxBatches, d \in {-1, 0, 1}} \cap Nat

\* len(chunk) == 1000
chunk_is_full(chunk) == Len(chunk) = BatchLimit

\* the rest sent whether or not it holds a key
has_rest_always(chunk) == TRUE

\* if chunk: after the loop
has_rest(chunk) == chunk # <<>>

\* delete_prefix_contents has a page of n keys: a page without keys is passed
\* over, any other is given to _delete_object_batch
BatchBegin(n) ==
    /\ batch.pc = "idle"
    /\ batch' = IF n = 0 THEN [BatchIdle EXCEPT !.pc = "done", !.out = "ok"]
                ELSE [BatchIdle EXCEPT !.pc = "loop", !.n = n]
    /\ UNCHANGED <<store, events, sub, conv, look, faults, invocations, cur>>

\* one round of the loop: the key is appended, and a chunk that has become
\* full goes to _submit_delete_batch, whose delete_objects call may fail
BatchAppend ==
    /\ batch.pc = "loop"
    /\ batch.i < batch.n
    /\ LET key   == batch.i + 1
           chunk == Append(batch.chunk, key)
       IN  IF chunk_is_full(chunk)
           THEN \/ /\ CanFail
                   /\ faults' = faults + 1
                   /\ batch' = [batch EXCEPT !.pc = "done", !.i = key,
                                             !.chunk = chunk, !.out = "StoreError"]
                \/ /\ faults' = faults
                   /\ batch' = [batch EXCEPT !.i = key, !.chunk = <<>>,
                                             !.calls = Append(@, chunk)]
           ELSE /\ faults' = faults
                /\ batch' = [batch EXCEPT !.i = key, !.chunk = chunk]
    /\ UNCHANGED <<store, events, sub, conv, look, invocations, cur>>

\* after the loop: what is left in the chunk goes to _submit_delete_batch
BatchRest ==
    /\ batch.pc = "loop"
    /\ batch.i = batch.n
    /\ IF has_rest(batch.chunk)
       THEN \/ /\ CanFail
               /\ faults' = faults + 1
               /\ batch' = [batch EXCEPT !.pc = "done", !.out = "StoreError"]
            \/ /\ faults' = faults
               /\ batch' = [batch EXCEPT !.pc = "done", !.out = "ok", !.chunk = <<>>,
                                         !.calls = Append(@, batch.chunk)]
       ELSE /\ faults' = faults
            /\ batch' = [batch EXCEPT !.pc = "done", !.out = "ok"]
    /\ UNCHANGED <<store, events, sub, conv, look, invocations, cur>>

\* the call has returned or raised
BatchReturn ==
    /\ batch.pc = "done"
    /\ batch' = BatchIdle
    /\ UNCHANGED <<store, events, sub, conv, look, faults, invocations, cur>>

(***************************************************************************)
(* convert_handler                                                         *)
(***************************************************************************)

\* a record filter that lets the PDFs through and not the workbooks
convert_accepts_pdf(key) == EndsWith(Lower(key), DotPdf)

\* lambda_handler: the record filter on the notified key
convert_accepts(key) == EndsWith(Lower(key), DotInput)

\* PDF named after the whole source name instead of its stem
convert_keys_full_name(key) ==
    LET pdf_filename == PathName(key) \o DotPdf
        prefix       == prefix_for_key(key)
    IN  [pdf_filename |-> pdf_filename,
         prefix       |-> prefix,
         pdf_key      |-> join_key(prefix, pdf_filename),
         result_key   |-> join_key(prefix, RESULT_OBJECT_NAME)]

\* PDF stored under a name that ends like a workbook
convert_keys_source_suffix(key) ==
    LET pdf_filename == PathStem(key) \o DotPdf \o DotInput
        prefix       == prefix_for_key(key)
    IN  [pdf_filename |-> pdf_filename,
         prefix       |-> prefix,
         pdf_key      |-> join_key(prefix, pdf_filename),
         result_key   |-> join_key(prefix, RESULT_OBJECT_NAME)]

\* _convert_object: the names and keys derived from the source key
convert_keys(key) ==
    LET pdf_filename == PathStem(key) \o DotPdf
        prefix       == prefix_for_key(key)
    IN  [pdf_filename |-> pdf_filename,
         prefix       |-> prefix,
         pdf_key      |-> join_key(prefix, pdf_filename),
         result_key   |-> join_key(prefix, RESULT_OBJECT_NAME)]

\* a marker that carries a stamp of the run next to the filename
marker_body_stamped(pdf_filename) == Encode(pdf_filename) \o <<32, 48 + invocations>>

\* body of the result marker
marker_body(pdf_filename) == Encode(pdf_filename)

\* the invocation after an exception left _convert_object
ConvertRaise(r, kind) == [r EXCEPT !.pc = "done", !.out = kind]

\* a failed read or conversion that is logged and not raised: the handler
\* goes on to record the result marker
ConvertReadFailed_logged(r, kind) == [r EXCEPT !.pc = "put_marker", !.out = kind]

\* the invocation after the read of the source or the conversion raised
ConvertReadFailed(r, kind) == ConvertRaise(r, kind)

\* a failed put of the PDF that is ignored: the handler goes on to the marker
ConvertPutPdfFailed_ignored(r) == [r EXCEPT !.pc = "put_marker"]

\* the invocation after the put of the PDF raised
ConvertPutPdfFailed(r) == ConvertRaise(r, "StoreError")

\* history: a conversion of key raised before its first write
NoteFailed(key) ==
    [f \in Fingerprints |->
        IF cur[f].name # <<>> /\ key = StoredKey(f) /\ key \in DOMAIN store
        THEN [cur[f] EXCEPT !.failed = TRUE]
        ELSE cur[f]]

\* delivery of one notification record to lambda_handler
ConvertBegin(w, key) ==
    /\ key \in events
    /\ ~Busy(conv[w])
    /\ \A t \in Workers : t < w => Busy(conv[t])
    /\ conv' = [conv EXCEPT ![w] =
            IF convert_accepts(key)
            THEN [ConvIdle EXCEPT !.pc = "get", !.key = key]
            ELSE [ConvIdle EXCEPT !.pc = "done", !.key = key, !.out = "skipped"]]
    /\ UNCHANGED <<store, events, sub, look, faults, cur, batch>>

\* an invocation of the convert handler, counted
ConvertStart(w, key) ==
    /\ invocations < MaxInvocations
    /\ invocations' = invocations + 1
    /\ ConvertBegin(w, key)

\* get_object of the source, write_temp_workbook and the conversion; the
\* conversion touches no object of the bucket, so it shares the step of the
\* read that feeds it
ConvertRead(w) ==
    /\ conv[w].pc = "get"
    /\ LET r == conv[w]
       IN  \/ /\ CanFail
              /\ faults' = faults + 1
              /\ conv' = [conv EXCEPT ![w] =
                    ConvertReadFailed([r EXCEPT !.at = "get"], "StoreError")]
              /\ cur' = NoteFailed(r.key)
           \/ /\ r.key \notin DOMAIN store
              /\ faults' = faults
              /\ conv' = [conv EXCEPT ![w] =
                    ConvertReadFailed([r EXCEPT !.at = "get"], "StoreError")]
              /\ cur' = cur
           \/ /\ r.key \in DOMAIN store
              /\ store[r.key] = <<>>
              /\ faults' = faults
              /\ conv' = [conv EXCEPT ![w] =
                    ConvertReadFailed([r EXCEPT !.at = "temp"], "InvalidInput")]
              /\ cur' = NoteFailed(r.key)
           \/ /\ r.key \in DOMAIN store
              /\ store[r.key] # <<>>
              /\ CanFail
              /\ faults' = faults + 1
              /\ conv' = [conv EXCEPT ![w] =
                    ConvertReadFailed([r EXCEPT !.at = "render"], "RenderError")]
              /\ cur' = NoteFailed(r.key)
           \/ /\ r.key \in DOMAIN store
              /\ store[r.key] # <<>>
              /\ faults' = faults
              /\ conv' = [conv EXCEPT ![w] =
                    [r EXCEPT !.pc = "put_pdf", !.pdf = Render(store[r.key])]]
              /\ cur' = cur
    /\ UNCHANGED <<store, events, sub, look, invocations, batch>>

\* put_object of the PDF
ConvertPutPdf(w) ==
    /\ conv[w].pc = "put_pdf"
    /\ LET r == [conv[w] EXCEPT !.puts = conv[w].puts + 1]
           k == convert_keys(r.key)
       IN  \/ /\ CanFail
              /\ faults' = faults + 1
              /\ conv' = [conv EXCEPT ![w] =
                    ConvertPutPdfFailed([r EXCEPT !.at = "put_pdf"])]
              /\ UNCHANGED <<store, events, look>>
           \/ /\ faults' = faults
              /\ store' = PutObject(store, k.pdf_key, r.pdf)
              /\ events' = events \cup {k.pdf_key}
              /\ conv' = [conv EXCEPT ![w] = [r EXCEPT !.pc = "put_marker"]]
              /\ look' = Observed(look, PutObject(store, k.pdf_key, r.pdf))
    /\ UNCHANGED <<sub, invocations, cur, batch>>

\* put_object of the result marker and the return of _convert_object
ConvertPutMarker(w) ==
    /\ conv[w].pc = "put_marker"
    /\ LET r == [conv[w] EXCEPT !.puts = conv[w].puts + 1]
           k == convert_keys(r.key)
       IN  \/ /\ CanFail
              /\ faults' = faults + 1
              /\ conv' = [conv EXCEPT ![w] =
                    ConvertRaise([r EXCEPT !.at = "put_marker"], "StoreError")]
              /\ UNCHANGED <<store, events, cur, look>>
           \/ /\ faults' = faults
              /\ store' = PutObject(store, k.result_key, marker_body(k.pdf_filename))
              /\ events' = events \cup {k.result_key}
              /\ conv' = [conv EXCEPT ![w] = [r EXCEPT !.pc = "done", !.out = "ok"]]
              /\ look' = Observed(look, PutObject(store, k.result_key,
                                                  marker_body(k.pdf_filename)))
              /\ cur' = [f \in Fingerprints |->
                    IF cur[f].name # <<>> /\ r.key = StoredKey(f)
                    THEN [cur[f] EXCEPT !.processed = TRUE]
                    ELSE cur[f]]
    /\ UNCHANGED <<sub, invocations, batch>>

(***************************************************************************)
(* get_handler.lambda_handler                                              *)
(***************************************************************************)

\* _extract_result_identifier without the format check
extract_result_identifier_unchecked(raw) ==
    IF raw = <<>> THEN [err |-> TRUE, id |-> <<>>]
    ELSE [err |-> FALSE, id |-> Strip(raw)]

\* _extract_result_identifier: the identifier, or the error raised
extract_result_identifier(raw) ==
    IF raw = <<>> THEN [err |-> TRUE, id |-> <<>>]
    ELSE LET lookup == Strip(raw)
         IN  IF ~is_valid_sha256(lookup) THEN [err |-> TRUE, id |-> <<>>]
             ELSE [err |-> FALSE, id |-> lookup]

\* the invocation after an exception or a response
LookReturn(r, kind) == [r EXCEPT !.pc = "done", !.out = kind]

\* the marker names no PDF that exists, so the handler treats the missing
\* PDF as a conversion still under way
LookupMissingPdf_in_progress(r) ==
    LookReturn([r EXCEPT !.filename = PathName(r.original_key)], "InProgress")

\* the ConversionError raised when the marker names no PDF that exists
LookupMissingPdf(r) == LookReturn(r, "Inconsistent")

\* object_exists on a successful head_object call
object_exists(bucket, key) == key \in DOMAIN bucket

\* the whole key reported as the name of the source
in_progress_name_whole_key(original_key) == original_key

\* the filename of the "inprogress" response
in_progress_name(original_key) == PathName(original_key)

\* the expected name keeps the extension of the source
expected_pdf_name_keeps_extension(original_key) == PathName(original_key) \o DotPdf

\* the name the PDF of a source is expected under
expected_pdf_name(original_key) == PathStem(PathName(original_key)) \o DotPdf

\* lambda_handler is invoked with a request: _extract_result_identifier
LookupBegin(raw) ==
    /\ ~Busy(look)
    /\ LET x == extract_result_identifier(raw)
           r == [LookIdle EXCEPT !.raw = raw]
       IN  look' = IF x.err THEN LookReturn(r, "InvalidInput")
                   ELSE [r EXCEPT !.pc = "list", !.id = x.id, !.fresh = TRUE,
                                  !.seen = {PrefixClass(store, x.id)}]
    /\ UNCHANGED <<store, events, sub, conv, faults, cur, batch>>

\* an invocation of the get handler, counted
LookupStart(raw) ==
    /\ invocations < MaxInvocations
    /\ invocations' = invocations + 1
    /\ LookupBegin(raw)

\* find_original_object
LookupList ==
    /\ look.pc = "list"
    /\ LET r == [look EXCEPT !.calls = look.calls + 1]
           o == find_original_object(store, look.id)
       IN  \/ /\ CanFail
              /\ faults' = faults + 1
              /\ look' = LookReturn(r, "StoreError")
           \/ /\ faults' = faults
              /\ look' = IF o = <<>> THEN LookReturn(r, "NotFound")
                         ELSE [r EXCEPT !.pc = "head_marker", !.original_key = o]
    /\ UNCHANGED <<store, events, sub, conv, cur, invocations, batch>>

\* object_exists(result_key)
LookupHeadMarker ==
    /\ look.pc = "head_marker"
    /\ LET r          == [look EXCEPT !.calls = look.calls + 1]
           result_key == join_key(look.id, RESULT_OBJECT_NAME)
       IN  \/ /\ CanFail
              /\ faults' = faults + 1
              /\ look' = LookReturn(r, "StoreError")
           \/ /\ faults' = faults
              /\ look' = IF object_exists(store, result_key)
                         THEN [r EXCEPT !.pc = "get_marker"]
                         ELSE LookReturn([r EXCEPT !.filename =
                                            in_progress_name(look.original_key)],
                                         "InProgress")
    /\ UNCHANGED <<store, events, sub, conv, cur, invocations, batch>>

\* read_text_object(result_key).strip()
LookupGetMarker ==
    /\ look.pc = "get_marker"
    /\ LET r          == [look EXCEPT !.calls = look.calls + 1]
           result_key == join_key(look.id, RESULT_OBJECT_NAME)
       IN  \/ /\ CanFail
              /\ faults' = faults + 1
              /\ look' = LookReturn(r, "StoreError")
           \/ /\ result_key \notin DOMAIN store
              /\ faults' = faults
              /\ look' = LookReturn(r, "StoreError")
           \/ /\ result_key \in DOMAIN store
              /\ faults' = faults
              /\ look' = [r EXCEPT !.pc = "head_pdf",
                                   !.result_filename =
                                        Strip(Decode(store[result_key]))]
    /\ UNCHANGED <<store, events, sub, conv, cur, invocations, batch>>

\* object_exists on the conventionally named PDF
LookupHeadPdf ==
    /\ look.pc = "head_pdf"
    /\ LET r       == [look EXCEPT !.calls = look.calls + 1]
           pdf_key == join_key(look.id, expected_pdf_name(look.original_key))
       IN  \/ /\ CanFail
              /\ faults' = faults + 1
              /\ look' = LookReturn(r, "StoreError")
           \/ /\ faults' = faults
              /\ look' =
                    IF object_exists(store, pdf_key)
                    THEN [r EXCEPT !.pc = "get_pdf", !.pdf_key = pdf_key]
                    ELSE IF look.result_filename = <<>>
                    THEN LookupMissingPdf(r)
                    ELSE [r EXCEPT !.pc = "head_named",
                                   !.pdf_key = join_key(look.id, look.result_filename)]
    /\ cur' = Answered(look')
    /\ UNCHANGED <<store, events, sub, conv, invocations, batch>>

\* object_exists on the PDF the marker names
LookupHeadNamed ==
    /\ look.pc = "head_named"
    /\ LET r == [look EXCEPT !.calls = look.calls + 1]
       IN  \/ /\ CanFail
              /\ faults' = faults + 1
              /\ look' = LookReturn(r, "StoreError")
           \/ /\ faults' = faults
              /\ look' = IF object_exists(store, look.pdf_key)
                         THEN [r EXCEPT !.pc = "get_pdf"]
                         ELSE LookupMissingPdf(r)
    /\ cur' = Answered(look')
    /\ UNCHANGED <<store, events, sub, conv, invocations, batch>>

\* read_binary_object(pdf_key) and pdf_response
LookupGetPdf ==
    /\ look.pc = "get_pdf"
    /\ LET r == [look EXCEPT !.calls = look.calls + 1]
       IN  \/ /\ CanFail
              /\ faults' = faults + 1
              /\ look' = LookReturn(r, "StoreError")
           \/ /\ look.pdf_key \notin DOMAIN store
              /\ faults' = faults
              /\ look' = LookReturn(r, "StoreError")
           \/ /\ look.pdf_key \in DOMAIN store
              /\ faults' = faults
              /\ look' = LookReturn([r EXCEPT !.body = store[look.pdf_key],
                                              !.filename = PathName(look.pdf_key)],
                                    "Ready")
    /\ cur' = Answered(look')
    /\ UNCHANGED <<store, events, sub, conv, invocations, batch>>

(***************************************************************************)
(* Requests and specifications                                             *)
(***************************************************************************)

\* a text of n characters that starts with head and goes on with "a"
Pad(head, n) == head \o [i \in 1..(n - Len(head)) |-> "a"]

Upper(s) == [i \in 1..Len(s) |->
                IF Code(s[i]) >= 97 /\ Code(s[i]) <= 122 THEN Chr(Code(s[i]) - 32)
                ELSE s[i]]

IdSigned == Pad(<<"+">>, Sha256Len)

IdTraversal == Pad(<<".", ".", "/">>, Sha256Len)

IdPrefixed == Pad(<<"0", "x">>, Sha256Len)

IdUnderscore == Pad(<<"a", "_">>, Sha256Len)

IdUpper == Upper(Sha256A)

IdSpaced == <<" ">> \o Sha256A \o <<" ">>

IdShort == Pad(<<>>, Sha256Len - 1)

IdLong == Pad(<<>>, Sha256Len + 1)

IdNotHex == Pad(<<"g">>, Sha256Len)

IdWords ==
    <<"n", "o", "t", "-", "6", "4", "-", "h", "e", "x", "-", "c", "h", "a", "r", "s">>

\* identifiers of the interleaved specification
LookupIds == {Sha256A, IdTraversal}

\* identifiers of the sequential specification
SeqLookupIds ==
    {Sha256A, Sha256B, IdSigned, IdTraversal, IdPrefixed, IdUnderscore, IdUpper,
     IdSpaced, IdShort, IdLong, IdNotHex, IdWords, <<>>}

\* the response (or the exception) leaves the handler: the invocation ends
SubmitReturn(s) ==
    /\ sub[s].pc = "done"
    /\ sub' = [sub EXCEPT ![s] = SubIdle]
    /\ UNCHANGED <<store, events, conv, look, faults, cur, invocations, batch>>

ConvertReturn(w) ==
    /\ conv[w].pc = "done"
    /\ conv' = [conv EXCEPT ![w] = ConvIdle]
    /\ UNCHANGED <<store, events, sub, look, faults, cur, invocations, batch>>

LookupReturn ==
    /\ look.pc = "done"
    /\ look' = LookIdle
    /\ UNCHANGED <<store, events, sub, conv, faults, cur, invocations, batch>>

Returns ==
    \/ \E s \in Submitters : SubmitReturn(s)
    \/ \E w \in Workers : ConvertReturn(w)
    \/ LookupReturn

\* no finished invocation is waiting to return.  Returning changes nothing
\* another invocation can see, so it is scheduled first.
Settled ==
    /\ \A s \in Submitters : sub[s].pc # "done"
    /\ \A w \in Workers : conv[w].pc # "done"
    /\ look.pc # "done"

SubmitSteps == \E s \in Submitters : SubmitList(s) \/ SubmitDelete(s) \/ SubmitPut(s)

ConvertSteps ==
    \E w \in Workers : ConvertRead(w) \/ ConvertPutPdf(w) \/ ConvertPutMarker(w)

LookupSteps ==
    \/ LookupList
    \/ LookupHeadMarker
    \/ LookupGetMarker
    \/ LookupHeadPdf
    \/ LookupHeadNamed
    \/ LookupGetPdf

\* every interleaving of the store calls of the three handlers
Next ==
    \/ /\ Settled
       /\ \E s \in Submitters, data \in Datas, raw \in RawNames, fmt \in Formats :
            SubmitStart(s, data, raw, fmt)
    \/ Settled /\ SubmitSteps
    \/ /\ Settled
       /\ \E w \in Workers, key \in events : ConvertStart(w, key)
    \/ Settled /\ ConvertSteps
    \/ /\ Settled
       /\ \E raw \in LookupIds : LookupStart(raw)
    \/ Settled /\ LookupSteps
    \/ Returns

Spec == Init /\ [][Next]_vars

\* invocations that never overlap: a handler starts only when none is running
SeqNext ==
    \/ /\ Quiet /\ Settled
       /\ \E s \in Submitters, data \in SeqDatas, raw \in SeqRawNames,
             fmt \in SeqFormats : SubmitStart(s, data, raw, fmt)
    \/ SubmitSteps
    \/ /\ Quiet /\ Settled
       /\ \E w \in Workers, key \in events : ConvertStart(w, key)
    \/ ConvertSteps
    \/ /\ Quiet /\ Settled
       /\ \E raw \in SeqLookupIds : LookupStart(raw)
    \/ LookupSteps
    \/ Returns

\* objects that overlapping invocations of an earlier period left under the
\* prefix of Sha256B: the source of the later of two submissions, and the PDF
\* and the marker that a conversion of the earlier one wrote after the prune
Leftover ==
    LET source == PutObject(<<>>, build_object_key(Sha256B, NameB), DataB)
        pdf    == PutObject(source, join_key(Sha256B, PathStem(NameA) \o DotPdf),
                            Render(DataB))
    IN  PutObject(pdf, join_key(Sha256B, RESULT_OBJECT_NAME),
                  marker_body(PathStem(NameA) \o DotPdf))

\* the bucket is empty, or holds the leftover of the earlier period
InitSeq ==
    /\ batch = BatchIdle
    /\ faults = 0
    /\ invocations = 0
    /\ store \in {<<>>, Leftover}
    /\ events = {k \in DOMAIN store : convert_accepts(k)}
    /\ sub = [s \in Submitters |-> SubIdle]
    /\ conv = [w \in Workers |-> ConvIdle]
    /\ look = LookIdle
    /\ cur = [f \in Fingerprints |-> CurNone]

SpecSeq == InitSeq /\ [][SeqNext]_vars

\* overlapping invocations under way.  Sha256A was submitted as d/b.xlsx, as
\* a.xlsx and as d/b.xlsx again; the conversion of the first submission read
\* it and wrote its PDF before the second submission pruned the prefix, and
\* the conversion of the second read it before the third pruned the prefix
InitInFlight ==
    /\ batch = BatchIdle
    /\ faults = 0
    /\ invocations = 2
    /\ store = PutObject(<<>>, build_object_key(Sha256A, NameB), DataA)
    /\ events = {build_object_key(Sha256A, NameA),
                 build_object_key(Sha256A, NameB),
                 convert_keys(build_object_key(Sha256A, NameB)).pdf_key}
    /\ sub = [s \in Submitters |-> SubIdle]
    /\ conv = [w \in Workers |->
            IF w = 1
            THEN [ConvIdle EXCEPT !.pc = "put_marker",
                                  !.key = build_object_key(Sha256A, NameB),
                                  !.pdf = Render(DataA), !.puts = 1]
            ELSE [ConvIdle EXCEPT !.pc = "put_pdf",
                                  !.key = build_object_key(Sha256A, NameA),
                                  !.pdf = Render(DataA)]]
    /\ look = LookIdle
    /\ cur = [f \in Fingerprints |->
            IF f = Sha256A
            THEN [CurNone EXCEPT !.name = NameB, !.raw = NameDirB, !.prev = NameA]
            ELSE CurNone]

SpecInFlight == InitInFlight /\ [][Next]_vars

\* the submission that the progress of a job is followed for
LiveData == DataB

LiveNames == {NameA, NameTxt}

LiveFingerprint == calculate_sha256(LiveData)

\* no submission is stored or under way
NoSubmission ==
    /\ \A f \in Fingerprints : cur[f].name = <<>>
    /\ \A s \in Submitters : ~Busy(sub[s])

\* a request for the result of f
Ask(f) == Settled /\ LookupBegin(f) /\ UNCHANGED invocations

\* a second delivery of the notification of the stored workbook while a
\* conversion of it is under way
Duplicate(key, running) ==
    /\ cur[LiveFingerprint].name # <<>>
    /\ key = StoredKey(LiveFingerprint)
    /\ running = key

\* invocations without a limit on their number: submissions until one is
\* stored and none after it, deliveries of every notification again and
\* again, overlapping only as duplicates of the notification of the stored
\* workbook, and requests for the result again and again
LiveNext ==
    \/ /\ Settled /\ NoSubmission
       /\ \E s \in Submitters, raw \in LiveNames, fmt \in Formats :
            SubmitBegin(s, LiveData, raw, fmt)
       /\ UNCHANGED invocations
    \/ Settled /\ SubmitSteps
    \/ /\ Settled
       /\ \E w \in Workers, key \in events :
            /\ \A t \in Workers : Busy(conv[t]) => Duplicate(key, conv[t].key)
            /\ ConvertBegin(w, key)
       /\ UNCHANGED invocations
    \/ Settled /\ ConvertSteps
    \/ Ask(LiveFingerprint)
    \/ Settled /\ LookupSteps
    \/ Returns

\* a conversion of the stored workbook of f has come to its end, whatever its
\* outcome (nothing is asked while no workbook of f is stored)
ConversionEnds(f) ==
    \/ cur[f].name = <<>>
    \/ \E w \in Workers : conv[w].pc = "done" /\ conv[w].key = StoredKey(f)

\* a request for the result of f has come to its end
LookupEnds(f) == look.pc = "done" /\ look.id = f

\* a finished invocation returns; the notification of the stored workbook is
\* delivered again and again and each conversion it starts runs to its end;
\* the result is asked for again and again and each request runs to its end.
\* With the failures of the store and the converter limited by MaxFaults, one
\* of these conversions completes without a failure.
Fairness ==
    /\ SF_vars(Returns)
    /\ []<>ConversionEnds(LiveFingerprint)
    /\ []<>LookupEnds(LiveFingerprint)

\* the bucket holds the leftover of the earlier period
InitLive == InitSeq /\ store = Leftover

SpecLive == InitLive /\ [][LiveNext]_vars /\ Fairness

\* the calls of _delete_object_batch on pages of every length in PageSizes
BatchNext ==
    \/ \E n \in PageSizes : BatchBegin(n)
    \/ BatchAppend
    \/ BatchRest
    \/ BatchReturn

SpecBatch == Init /\ [][BatchNext]_vars

(***************************************************************************)
(* Properties                                                              *)
(***************************************************************************)

\* the bytes a fingerprint of the model was computed from
DataOf(f) == CHOOSE d \in {DataA, DataB} : calculate_sha256(d) = f

\* a submit request with a filename ending in .xlsx and non-empty content
ValidRequest(r) ==
    /\ EndsWith(Lower(r.raw), DotInput)
    /\ Lower(r.fmt) = SUPPORTED_INPUT_FORMAT
    /\ r.data # <<>>

\* a finished fault-free Lookup of a fingerprint that has a stored submission
LookedUp(f) ==
    /\ look.pc = "done"
    /\ look.id = f
    /\ faults = 0
    /\ cur[f].name # <<>>

C1_SubmitReturnsFingerprint ==
    \A s \in Submitters :
        (sub[s].pc = "done" /\ ValidRequest(sub[s]) /\ faults = 0)
            => (sub[s].out = "ok" /\ sub[s].result = calculate_sha256(sub[s].data))

C1_ReadyAfterProcess ==
    \A f \in Fingerprints :
        (LookedUp(f) /\ cur[f].processed)
            => /\ look.out = "Ready"
               /\ look.filename = PathStem(cur[f].name) \o DotPdf
               /\ look.body = Render(DataOf(f))

\* C1 as stated: run one after another without a failing call, Submit(b, f)
\* of a filename f ending in .xlsx and non-empty b returns fingerprint(b), a
\* Lookup before Process has run answers InProgress with filename f, and a
\* Lookup after Process completed answers Ready with the PDF Process wrote.
C1_Original ==
    /\ C1_SubmitReturnsFingerprint
    /\ C1_ReadyAfterProcess
    /\ \A f \in Fingerprints :
            (LookedUp(f) /\ ~cur[f].processed)
                => (look.out = "InProgress" /\ look.filename = cur[f].raw)

\* C1 amended: as C1, with InProgress carrying the basename of f (f without
\* its directory part), which is the name the source is stored under.
C1_Amended ==
    /\ C1_SubmitReturnsFingerprint
    /\ C1_ReadyAfterProcess
    /\ \A f \in Fingerprints :
            (LookedUp(f) /\ ~cur[f].processed)
                => (look.out = "InProgress" /\ look.filename = PathName(cur[f].raw))

\* a Lookup answers Ready for a submission that was sent with a directory part
C1_Witness ==
    \E f \in Fingerprints :
        /\ LookedUp(f)
        /\ cur[f].processed
        /\ cur[f].raw = NameDirB
        /\ look.out = "Ready"

\* C2: whenever the result marker of a fingerprint exists, the PDF it names
\* exists under the same prefix.
C2_MarkerImpliesArtifact ==
    \A f \in Fingerprints :
        LET result_key == join_key(f, RESULT_OBJECT_NAME)
        IN  result_key \in DOMAIN store
                => join_key(f, Strip(Decode(store[result_key]))) \in DOMAIN store

\* C3: after Submit(b, f1) and then a completed Submit(b, f2), a Lookup that
\* starts after the second Submit returned never answers Ready with the PDF
\* of the first submission, stem(f1).pdf.
C3_NoStaleArtifact ==
    \A f \in Fingerprints :
        (/\ LookedUp(f)
         /\ look.fresh
         /\ look.out = "Ready"
         /\ cur[f].prev # <<>>
         /\ PathStem(cur[f].prev) # PathStem(cur[f].name))
            => look.filename # PathStem(cur[f].prev) \o DotPdf

\* the source objects under the prefix of a fingerprint
SourcesUnder(f) ==
    {k \in ListPrefix(store, join_key(f, <<>>)) : EndsWith(Lower(PathName(k)), DotInput)}

\* C4: at most one source object exists under any fingerprint prefix.
C4_AtMostOneSource == \A f \in Fingerprints : Cardinality(SourcesUnder(f)) <= 1

\* the identifier of a request fails the format check
FailsFormatCheck(raw) == raw = <<>> \/ ~is_valid_sha256(Strip(raw))

\* C5: a Lookup whose id fails the format check ends with InvalidInput before
\* any store call, and no id with a path separator reaches the store.
C5_InvalidIdNoStoreCall ==
    look.pc # "idle" =>
        /\ FailsFormatCheck(look.raw)
                => (look.pc = "done" /\ look.out = "InvalidInput" /\ look.calls = 0)
        /\ look.calls > 0 => \A i \in 1..Len(look.id) : look.id[i] # "/"

\* a traversal-style id was rejected with no store call
C5_Witness ==
    /\ look.pc = "done"
    /\ look.raw = IdTraversal
    /\ look.out = "InvalidInput"
    /\ look.calls = 0

LowerHexDigits ==
    {"0", "1", "2", "3", "4", "5", "6", "7", "8", "9", "a", "b", "c", "d", "e", "f"}

IsLowerHex64(v) == Len(v) = Sha256Len /\ \A i \in 1..Len(v) : v[i] \in LowerHexDigits

\* C6: Lookup accepts an id exactly when it is 64 lowercase hex digits, and
\* rejects every other id with InvalidInput.
C6_AcceptsOnlyLowerHex64 ==
    look.pc # "idle" => (look.out = "InvalidInput" <=> ~IsLowerHex64(look.raw))

\* the request of a submit is one C7 names: no basename, a basename that does
\* not end in .xlsx, or empty content
InvalidRequest(r) ==
    \/ PathName(r.raw) = <<>>
    \/ ~EndsWith(Lower(PathName(r.raw)), DotInput)
    \/ r.data = <<>>

\* C7: a Submit with an empty basename, a basename not ending in .xlsx or
\* empty content ends with InvalidInput having issued no delete and no put.
C7_InvalidSubmitNoWrite ==
    \A s \in Submitters :
        (sub[s].pc # "idle" /\ InvalidRequest(sub[s]))
            => /\ sub[s].pc = "done"
               /\ sub[s].out = "InvalidInput"
               /\ sub[s].puts = 0
               /\ sub[s].dels = 0

\* report.txt was rejected while the bucket held objects
C7_Witness ==
    \E s \in Submitters :
        /\ sub[s].out = "InvalidInput"
        /\ sub[s].raw = NameTxt
        /\ sub[s].data = DataA
        /\ DOMAIN store # {}

\* C8: when the list or the delete-batch call of the prune fails, Submit ends
\* with StoreError and has issued no put of the source object.
C8_PruneFailureAborts ==
    \A s \in Submitters :
        sub[s].at \in {"list", "delete"}
            => /\ sub[s].pc = "done"
               /\ sub[s].out = "StoreError"
               /\ sub[s].puts = 0

\* a delete-batch call failed and the Submit ended with StoreError
C8_Witness ==
    \E s \in Submitters :
        /\ sub[s].at = "delete"
        /\ sub[s].out = "StoreError"
        /\ sub[s].puts = 0

\* C9: a Process run that fails reading the source or converting it issues no
\* put; and while no run of the stored source has completed, a Lookup after
\* such a failure answers InProgress.
C9_FailedRunWritesNothing ==
    /\ \A w \in Workers :
            conv[w].at \in {"get", "temp", "render"}
                => /\ conv[w].pc = "done"
                   /\ conv[w].out \in {"StoreError", "InvalidInput", "RenderError"}
                   /\ conv[w].puts = 0
    /\ \A f \in Fingerprints :
            (/\ look.pc = "done"
             /\ look.id = f
             /\ look.out # "StoreError"
             /\ cur[f].name # <<>>
             /\ StoredKey(f) \in DOMAIN store
             /\ cur[f].failed
             /\ ~cur[f].processed)
                => look.out = "InProgress"

\* a Lookup answered InProgress after a run of the stored source had failed
C9_Witness ==
    \E f \in Fingerprints :
        /\ look.pc = "done"
        /\ look.id = f
        /\ cur[f].failed
        /\ ~cur[f].processed
        /\ look.out = "InProgress"

\* the run of worker w repeats a completed run on the unchanged stored source
Rerun(w) ==
    \E f \in Fingerprints :
        /\ cur[f].name # <<>>
        /\ cur[f].processed
        /\ conv[w].key = StoredKey(f)

\* C10: a second Process run on the same unchanged source writes the same PDF
\* key and bytes and the same marker body: none of its writes changes the
\* bucket, so the bucket after the second run is the bucket after the first.
C10_RerunLeavesStore ==
    [][\A w \in Workers :
            (/\ conv[w].pc \in {"put_pdf", "put_marker"}
             /\ conv'[w] # conv[w]
             /\ Rerun(w))
                => store' = store]_vars

\* a second run has written the PDF again and is about to write the marker
C10_Witness ==
    \E w \in Workers :
        /\ conv[w].pc = "put_marker"
        /\ Rerun(w)

\* the four results of a Lookup that describe the prefix
Classes == {"NotFound", "InProgress", "Ready", "Inconsistent"}

\* C11: a Lookup of F during which the bucket always held a source and a
\* marker under F/ and neither the conventionally named PDF nor the PDF the
\* marker names fails with Inconsistent, unless a store call of it failed.
C11_MissingArtifactIsInconsistent ==
    (/\ look.pc = "done"
     /\ look.out # "StoreError"
     /\ look.seen = {"Inconsistent"})
        => look.out = "Inconsistent"

\* a Lookup found source and marker and no PDF, and answered Inconsistent
C11_Witness ==
    /\ look.pc = "done"
    /\ look.seen = {"Inconsistent"}
    /\ look.out = "Inconsistent"
    /\ look.calls = 5

\* C12: every result of a Lookup is what one bucket state that existed during
\* that Lookup amounts to, also when steps of Submit or Process interleave
\* with its calls.
C12_OutcomeWasObserved ==
    (look.pc = "done" /\ look.out \in Classes) => look.out \in look.seen

\* C13: once a Lookup of F has returned Ready, a later Lookup of F returns
\* something else only if a step of a Submit for F came in between; runs of
\* Process alone never take the prefix out of Ready.
C13_ReadyStays ==
    \A f \in Fingerprints :
        (/\ look.pc = "done"
         /\ look.id = f
         /\ look.out \in Classes
         /\ cur[f].ready)
            => look.out = "Ready"

\* C14: once a Lookup of F has failed with Inconsistent, every later Lookup
\* of F fails with Inconsistent, whatever Submit and Process do afterwards.
C14_InconsistentIsTerminal ==
    \A f \in Fingerprints :
        (/\ look.pc = "done"
         /\ look.id = f
         /\ look.out \in Classes
         /\ cur[f].broken)
            => look.out = "Inconsistent"

\* C15: once a Submit for F has returned successfully, no Lookup of F that
\* starts later returns NotFound, also while a further Submit for F is
\* between its prune and its write.
C15_NoReturnToNotFound ==
    \A f \in Fingerprints :
        (/\ look.pc = "done"
         /\ look.id = f
         /\ look.fresh
         /\ cur[f].name # <<>>)
            => look.out # "NotFound"

\* the put of the PDF of run w has returned and put the PDF
PdfStored(w) ==
    /\ conv'[w].pc = "put_marker"
    /\ convert_keys(conv[w].key).pdf_key \in DOMAIN store'
    /\ store'[convert_keys(conv[w].key).pdf_key] = conv[w].pdf

\* C16: a Process run issues the put of the marker only after its put of the
\* PDF has returned successfully; a run whose PDF put failed issues no marker
\* put.
C16_MarkerAfterArtifact ==
    /\ [](\A w \in Workers :
            /\ conv[w].pc = "put_marker" => (conv[w].puts = 1 /\ conv[w].at = "none")
            /\ conv[w].at = "put_pdf" => (conv[w].pc = "done" /\ conv[w].puts = 1)
            /\ conv[w].puts <= 2)
    /\ [][\A w \in Workers :
            (conv[w].pc # "put_marker" /\ conv'[w].pc = "put_marker")
                => (conv[w].pc = "put_pdf" /\ PdfStored(w))]_vars

\* a run ended on the failed put of its PDF, the only put it issued
C16_Witness ==
    \E w \in Workers :
        /\ conv[w].pc = "done"
        /\ conv[w].at = "put_pdf"
        /\ conv[w].out = "StoreError"
        /\ conv[w].puts = 1

\* the source object a Lookup of f finds in the bucket, <<>> when none
SourceOf(f) == find_original_object(store, f)

MarkerKey(f) == join_key(f, RESULT_OBJECT_NAME)

\* the key of the conventionally named PDF of the source under f
ConventionalKey(f) == join_key(f, PathStem(PathName(SourceOf(f))) \o DotPdf)

\* the key of the PDF the marker under f names
RecordedKey(f) == join_key(f, Strip(Decode(store[MarkerKey(f)])))

\* C17: when a source exists under F/ and the marker is absent, Lookup of F
\* returns InProgress with the filename of the source, whether or not a PDF
\* exists; so it does after a run whose PDF put succeeded and whose marker
\* put failed.
C17_NoMarkerIsInProgress ==
    \A f \in Fingerprints :
        (/\ look.pc = "done"
         /\ look.id = f
         /\ look.out # "StoreError"
         /\ SourceOf(f) # <<>>
         /\ MarkerKey(f) \notin DOMAIN store)
            => (look.out = "InProgress" /\ look.filename = PathName(SourceOf(f)))

\* a Lookup answered InProgress while the PDF of the source was in the bucket
C17_Witness ==
    \E f \in Fingerprints :
        /\ look.pc = "done"
        /\ look.id = f
        /\ look.out = "InProgress"
        /\ SourceOf(f) # <<>>
        /\ ConventionalKey(f) \in DOMAIN store
        /\ MarkerKey(f) \notin DOMAIN store

C20_ConventionalFirst ==
    \A f \in Fingerprints :
        (look.pc = "done" /\ look.id = f /\ look.out = "Ready")
            => /\ SourceOf(f) # <<>>
               /\ MarkerKey(f) \in DOMAIN store
               /\ LET taken == IF ConventionalKey(f) \in DOMAIN store
                               THEN ConventionalKey(f) ELSE RecordedKey(f)
                  IN  /\ taken \in DOMAIN store
                      /\ look.pdf_key = taken
                      /\ look.filename = PathName(taken)
                      /\ look.body = store[taken]

\* both PDFs existed under different names and Ready carried the conventional
C20_Witness ==
    \E f \in Fingerprints :
        /\ look.pc = "done"
        /\ look.id = f
        /\ look.out = "Ready"
        /\ MarkerKey(f) \in DOMAIN store
        /\ ConventionalKey(f) \in DOMAIN store
        /\ RecordedKey(f) \in DOMAIN store
        /\ RecordedKey(f) # ConventionalKey(f)
        /\ look.pdf_key = ConventionalKey(f)

\* a finished Lookup of f whose store calls all succeeded
LookupAnswered(f) == look.pc = "done" /\ look.id = f /\ look.out \in Classes

\* C19: after a successful Submit for F and with no further Submit, when the
\* notification of the stored source is delivered again until a Process run
\* completes, eventually a Lookup of F returns Ready and from then on every
\* Lookup of F that is answered returns Ready.  F is the fingerprint of the
\* one submission that the specification stores.
C19_EventuallyReady ==
    (cur[LiveFingerprint].name # <<>>)
        ~> (/\ LookupAnswered(LiveFingerprint) /\ look.out = "Ready"
            /\ [](LookupAnswered(LiveFingerprint) => look.out = "Ready"))

\* a Lookup returned Ready after a failed run and a later completed run
C19_Witness ==
    \E f \in Fingerprints :
        /\ look.pc = "done"
        /\ look.id = f
        /\ look.out = "Ready"
        /\ cur[f].failed
        /\ cur[f].processed

\* the part of a key up to and including its last "/"
KeyPrefix(k) == SubSeq(k, 1, LastIndex(k, "/"))

\* a conversion that has derived its keys and not failed since
Writing(r) == r.pc \in {"put_pdf", "put_marker"} \/ (r.pc = "done" /\ r.out = "ok")

\* C21: a Process run on a source key P/name.xlsx writes its PDF to P/stem.pdf
\* and its marker to P/result; the three keys differ from one another, no put
\* of a run changes the source object, and the put of the PDF does not change
\* the marker.
C21_SamePrefixDistinctKeys ==
    /\ [](\A w \in Workers :
            Writing(conv[w]) =>
                LET key == conv[w].key
                    k   == convert_keys(key)
                    P   == KeyPrefix(key)
                IN  /\ P # <<>>
                    /\ k.pdf_key = P \o PathStem(PathName(key)) \o DotPdf
                    /\ k.result_key = P \o RESULT_OBJECT_NAME
                    /\ k.pdf_key # key
                    /\ k.result_key # key
                    /\ k.pdf_key # k.result_key)
    /\ [][\A w \in Workers :
            (conv[w].pc \in {"put_pdf", "put_marker"} /\ conv'[w] # conv[w]) =>
                LET key    == conv[w].key
                    marker == convert_keys(key).result_key
                IN  /\ key \in DOMAIN store
                        => (key \in DOMAIN store' /\ store'[key] = store[key])
                    /\ (conv[w].pc = "put_pdf" /\ marker \in DOMAIN store)
                        => (marker \in DOMAIN store' /\ store'[marker] = store[marker])]_vars

\* a run on a source whose name is only the extension has written both objects
\* next to it
C21_Witness ==
    \E w \in Workers :
        LET key == conv[w].key
            k   == convert_keys(key)
        IN  /\ conv[w].pc = "done"
            /\ conv[w].out = "ok"
            /\ PathName(key) = NameHidden
            /\ {key, k.pdf_key, k.result_key} \subseteq DOMAIN store
            /\ store[k.result_key] = marker_body(k.pdf_filename)

\* the key ends in .xlsx, whatever the case of its letters
PassesFilter(k) == EndsWith(Lower(k), DotInput)

\* C22: neither key a Process run writes ends in .xlsx, a put of a run adds no
\* notification that passes the trigger filter, and a run delivered for a key
\* that does not pass it ends without a store call.
C22_WritesDoNotTrigger ==
    /\ [](\A w \in Workers :
            /\ Writing(conv[w]) =>
                    LET k == convert_keys(conv[w].key)
                    IN  ~PassesFilter(k.pdf_key) /\ ~PassesFilter(k.result_key)
            /\ (conv[w].key # <<>> /\ ~PassesFilter(conv[w].key)) =>
                    /\ conv[w].pc = "done"
                    /\ conv[w].out = "skipped"
                    /\ conv[w].puts = 0)
    /\ [][(\E w \in Workers :
                conv[w].pc \in {"put_pdf", "put_marker"} /\ conv'[w] # conv[w])
            => \A k \in events' \ events : ~PassesFilter(k)]_vars

\* the notification of a marker that a completed run wrote was delivered and
\* skipped
C22_Witness ==
    \E w \in Workers, f \in Fingerprints :
        /\ cur[f].processed
        /\ conv[w].key = join_key(f, RESULT_OBJECT_NAME)
        /\ conv[w].key \in DOMAIN store
        /\ conv[w].pc = "done"
        /\ conv[w].out = "skipped"

\* the keys of a chunk
KeysOf(chunk) == {chunk[j] : j \in 1..Len(chunk)}

\* C23: every chunk handed to _submit_delete_batch holds at least one key and
\* at most BatchLimit keys, no key of the page is in two chunks or twice in
\* one, and when the call has returned every key of the page is in a chunk.
C23_BatchesPartitionPage ==
    LET calls == batch.calls
    IN  /\ \A c \in 1..Len(calls) :
                /\ Len(calls[c]) >= 1
                /\ Len(calls[c]) <= BatchLimit
                /\ Cardinality(KeysOf(calls[c])) = Len(calls[c])
                /\ KeysOf(calls[c]) \subseteq 1..batch.n
        /\ \A c, d \in 1..Len(calls) :
                c # d => KeysOf(calls[c]) \cap KeysOf(calls[d]) = {}
        /\ (batch.pc = "done" /\ batch.out = "ok")
                => UNION {KeysOf(calls[c]) : c \in 1..Len(calls)} = 1..batch.n

\* the call on a page of twice BatchLimit keys has returned after two chunks
C23_Witness ==
    /\ batch.pc = "done"
    /\ batch.out = "ok"
    /\ batch.n = 2 * BatchLimit
    /\ Len(batch.calls) = 2

\* prefixes that are empty once their slashes are stripped
EmptyPrefixes == {<<>>, <<"/">>, <<"/", "/">>}

\* C24: a step of a Submit for F leaves every object whose key does not start
\* with F/ as it was, a prune with an empty prefix lists nothing to delete,
\* and a step of a Lookup leaves the bucket as it was.
C24_Frame ==
    /\ [](\A p \in EmptyPrefixes : prune_listing(store, p) = {})
    /\ [][\A s \in Submitters :
            (Busy(sub[s]) /\ sub'[s] # sub[s]) =>
                (\A k \in DOMAIN store \cup DOMAIN store' :
                    \/ StartsWith(k, calculate_sha256(sub[s].data) \o <<"/">>)
                    \/ (/\ k \in DOMAIN store
                        /\ k \in DOMAIN store'
                        /\ store'[k] = store[k]))]_vars
    /\ [][(Busy(look) /\ look' # look) => store' = store]_vars

\* a Submit for one fingerprint has pruned and stored, and the objects under
\* the other fingerprint are all there
C24_Witness ==
    \E s \in Submitters :
        /\ sub[s].pc = "done"
        /\ sub[s].out = "ok"
        /\ sub[s].dels >= 1
        /\ calculate_sha256(sub[s].data) = Sha256A
        /\ \A k \in DOMAIN Leftover : k \in DOMAIN store /\ store[k] = Leftover[k]

\* C25: every object under F/ whose key ends in .xlsx holds bytes with the
\* fingerprint F, and the PDF that a Lookup of F answers with is the
\* rendering of the bytes with fingerprint F, whatever Submits and Process
\* runs overlapped; the filename of the answer may be that of an older
\* submission.
C25_ContentIntegrity ==
    /\ \A f \in Fingerprints :
            \A k \in ListPrefix(store, f \o <<"/">>) :
                PassesFilter(k) => calculate_sha256(store[k]) = f
    /\ (look.pc = "done" /\ look.out = "Ready")
            => (look.id \in Fingerprints /\ look.body = Render(DataOf(look.id)))

\* a Lookup answered with the right bytes under the name of the PDF of an
\* older submission
C25_Witness ==
    \E f \in Fingerprints :
        /\ look.pc = "done"
        /\ look.out = "Ready"
        /\ look.id = f
        /\ cur[f].name # <<>>
        /\ look.filename # PathStem(cur[f].name) \o DotPdf
        /\ look.body = Render(DataOf(f))

\* C26: when the invocations do not overlap and no store or render call has
\* failed, no Lookup fails for a marker without a PDF.
C26_SequentialNeverInconsistent ==
    faults = 0 => look.out # "Inconsistent"

\* without a failed call, a Lookup after a submission, a second submission
\* under another name and its conversion was answered with the PDF
C26_Witness ==
    \E f \in Fingerprints :
        /\ faults = 0
        /\ look.pc = "done"
        /\ look.id = f
        /\ look.out = "Ready"
        /\ cur[f].prev \notin {<<>>, cur[f].name}
        /\ cur[f].processed

\* C27: a Submit for F whose put of the source fails ends with StoreError and
\* with nothing under F/, and from then until a Submit for F stores a source
\* every answered Lookup of F is NotFound, also when a submission of F had
\* been stored before.
C27_FailedPutLeavesPrefixEmpty ==
    /\ \A s \in Submitters :
            (sub[s].pc = "done" /\ sub[s].at = "put") =>
                /\ sub[s].out = "StoreError"
                /\ sub[s].result = <<>>
                /\ ListPrefix(store, calculate_sha256(sub[s].data) \o <<"/">>) = {}
    /\ \A f \in Fingerprints :
            (cur[f].emptied /\ LookupAnswered(f)) => look.out = "NotFound"

\* a Lookup of a fingerprint that had a stored and converted submission was
\* answered NotFound after a Submit for it failed at its put
C27_Witness ==
    \E f \in Fingerprints :
        /\ cur[f].emptied
        /\ cur[f].name # <<>>
        /\ look.pc = "done"
        /\ look.id = f
        /\ look.out = "NotFound"

====
